---- MODULE Spec2Model ----
(***************************************************************************)
(* Model of the interactive session engine of QueryTerminal (src/qt.py):   *)
(* the read / buffer / dispatch / execute loop of QT.run, the meta-command *)
(* handlers, the execution engine QT._exec_sql and the readline completer. *)
(*                                                                         *)
(* Text is modelled character by character: a string is a sequence of      *)
(* one-character strings, so strip, split, startswith, endswith and join   *)
(* are computed as Python computes them.                                   *)
(***************************************************************************)
EXTENDS Naturals, Integers, Sequences, FiniteSets, TLC

VARIABLES
    pc,          \* position of the process: "start", "read" (top of the loop),
                 \* "input" (blocked in input()), "completed" (the completer
                 \* has just returned to readline), "exited", "crashed"
    status,      \* exit status of the process, -1 while it runs
    rt,          \* self.rt: [conn |-> handle id, path |-> identifier]
    openConns,   \* handles that were opened and not closed yet
    nextConn,    \* number of handles created so far
    files,       \* committed content of each file-backed database
    mem,         \* committed content of the in-memory database of rt.conn
    txn,         \* working copy of the open transaction of rt.conn, or NoTxn
    _buffer,     \* self._buffer: lines entered and not flushed yet
    _timer,      \* self._timer
    _readline,   \* self._readline is not None
    trace,       \* what the last step did: prints and calls, in order
    op,          \* kind of the last step
    lastLine,    \* the (stripped) line the last step read
    tblHeaders,  \* _format_table: the headers it is given
    tblRows,     \* _format_table: the rows it is given
    tblText,     \* _format_table: the text it returned
    cands,       \* the candidates QT._complete has derived for a line context
    reqState,    \* the index ("state") of the last request for one of them
    picked       \* what that request returned: <<candidate>>, or <<>> for None

\* the variables of the session
sessVars == <<pc, status, rt, openConns, nextConn, files, mem, txn,
              _buffer, _timer, _readline>>

\* the variables of the two pure functions looked at on their own
pureVars == <<tblHeaders, tblRows, tblText, cands, reqState, picked>>

vars == <<pc, status, rt, openConns, nextConn, files, mem, txn,
          _buffer, _timer, _readline, trace, op, lastLine,
          tblHeaders, tblRows, tblText, cands, reqState, picked>>

\* ------------------------------- bounds -------------------------------- *\

\* longest buffer the model lets the user build before a terminated line
MaxBuf == 2
\* number of database handles the model lets one run create
MaxConns == 2
\* highest completion index (readline's "state") requested
MaxState == 2
\* most rows of a table handed to _format_table
MaxRows == 2
\* longest list of candidates handed to sorted(set(...))
MaxCands == 3

\* ------------------------------ text ----------------------------------- *\

\* str.isspace for the characters of the model
IsSpace(c) == c \in {" ", "\t", "\n"}

RECURSIVE LStrip(_)
LStrip(s) == IF s # <<>> /\ IsSpace(Head(s)) THEN LStrip(Tail(s)) ELSE s

RECURSIVE RStrip(_)
RStrip(s) == IF s # <<>> /\ IsSpace(s[Len(s)])
             THEN RStrip(SubSeq(s, 1, Len(s) - 1)) ELSE s

\* str.strip()
Strip(s) == RStrip(LStrip(s))

\* str.startswith(p)
StartsWith(s, p) == Len(p) <= Len(s) /\ SubSeq(s, 1, Len(p)) = p

\* str.endswith(p)
EndsWith(s, p) == Len(p) <= Len(s) /\ SubSeq(s, Len(s) - Len(p) + 1, Len(s)) = p

\* str.split(): the maximal runs of non-whitespace characters
RECURSIVE SplitFrom(_, _, _)
SplitFrom(s, cur, acc) ==
    IF s = <<>> THEN (IF cur = <<>> THEN acc ELSE Append(acc, cur))
    ELSE IF IsSpace(Head(s))
         THEN SplitFrom(Tail(s), <<>>, IF cur = <<>> THEN acc ELSE Append(acc, cur))
         ELSE SplitFrom(Tail(s), Append(cur, Head(s)), acc)

Split(s) == SplitFrom(s, <<>>, <<>>)

\* "\n".join(lines)
RECURSIVE JoinNL(_)
JoinNL(lines) ==
    IF lines = <<>> THEN <<>>
    ELSE IF Len(lines) = 1 THEN lines[1]
    ELSE lines[1] \o <<"\n">> \o JoinNL(Tail(lines))

\* os.path.basename
RECURSIVE Basename(_)
Basename(p) ==
    IF \E i \in 1..Len(p) : p[i] = "/"
    THEN Basename(Tail(p)) ELSE p

LowerLetters == <<"a", "b", "c", "d", "e", "f", "g", "h", "i", "j", "k", "l", "m",
                  "n", "o", "p", "q", "r", "s", "t", "u", "v", "w", "x", "y", "z">>
UpperLetters == <<"A", "B", "C", "D", "E", "F", "G", "H", "I", "J", "K", "L", "M",
                  "N", "O", "P", "Q", "R", "S", "T", "U", "V", "W", "X", "Y", "Z">>

IndexIn(seq, c) == CHOOSE i \in 1..Len(seq) : seq[i] = c

LowerSet == {LowerLetters[i] : i \in 1..Len(LowerLetters)}
UpperSet == {UpperLetters[i] : i \in 1..Len(UpperLetters)}

IsLower(c) == c \in LowerSet
IsUpper(c) == c \in UpperSet

\* the upper-case letter of each lower-case letter, and the reverse
UpperOf == [c \in LowerSet |-> UpperLetters[IndexIn(LowerLetters, c)]]
LowerOf == [c \in UpperSet |-> LowerLetters[IndexIn(UpperLetters, c)]]

\* str.upper() and str.lower()
Upper(s) == [i \in 1..Len(s) |-> IF IsLower(s[i]) THEN UpperOf[s[i]] ELSE s[i]]
Lower(s) == [i \in 1..Len(s) |-> IF IsUpper(s[i]) THEN LowerOf[s[i]] ELSE s[i]]

\* ----------------------------- literals -------------------------------- *\

MEMORY == <<":", "m", "e", "m", "o", "r", "y", ":">>
dotHelp == <<".", "h", "e", "l", "p">>
dotExit == <<".", "e", "x", "i", "t">>
dotOpen == <<".", "o", "p", "e", "n">>
dotTables == <<".", "t", "a", "b", "l", "e", "s">>
dotSchema == <<".", "s", "c", "h", "e", "m", "a">>
dotDump == <<".", "d", "u", "m", "p">>

\* self._meta: the registry of meta-commands
MetaNames == {dotHelp, dotExit, dotOpen, dotTables, dotSchema, dotDump}

ITEMS == <<"i", "t", "e", "m", "s">>
colId == <<"i", "d">>
kwCREATE == <<"C", "R", "E", "A", "T", "E">>
kwINSERT == <<"I", "N", "S", "E", "R", "T">>
kwSELECT == <<"S", "E", "L", "E", "C", "T">>
kwBEGIN == <<"B", "E", "G", "I", "N">>
kwCOMMIT == <<"C", "O", "M", "M", "I", "T">>
kwDROP == <<"D", "R", "O", "P">>
fileA == <<"a">>

\* the database identifiers of the model: the in-memory marker and one file
FilePaths == {fileA}

\* the lines the user types at the Idle prompt (before str.strip)
IdleLines == {
    <<>>,
    <<" ">>,
    dotHelp,
    <<".", "H", "e", "l", "p">>,
    <<" ">> \o dotExit \o <<" ">>,
    dotExit \o <<";">>,
    dotOpen,
    dotOpen \o <<" ">> \o fileA,
    dotOpen \o <<" ">> \o MEMORY,
    dotTables,
    dotTables \o <<" ">> \o ITEMS,
    dotSchema,
    dotDump,
    kwCREATE \o <<";">>,
    kwINSERT,
    kwINSERT \o <<";">>,
    kwSELECT \o <<";">>,
    kwBEGIN \o <<";">>,
    kwCOMMIT \o <<";">>,
    kwDROP \o <<";">>,
    <<"I", "N", "S", "E", "R", ";">>
}

\* the lines the user types at the continuation prompt
ContLines == {
    <<>>,
    <<" ">>,
    dotExit,
    dotOpen \o <<" ">> \o fileA,
    dotExit \o <<";">>,
    <<" ">> \o kwINSERT \o <<";", " ">>,
    <<";">>
}

\* ------------------------- trace of one step --------------------------- *\

\* one thing a step did: a line printed or a call made
Ev(kind, arg, n) == [ev |-> kind, arg |-> arg, n |-> n]

\* print(...) of a fixed text
Say(kind) == Ev(kind, <<>>, 0)

\* the events of a trace whose kind is in kinds, in order
RECURSIVE Only(_, _)
Only(t, kinds) ==
    IF t = <<>> THEN <<>>
    ELSE IF Head(t).ev \in kinds THEN <<Head(t)>> \o Only(Tail(t), kinds)
    ELSE Only(Tail(t), kinds)

\* the kinds of the events of a trace, in order
Kinds(t) == [i \in 1..Len(t) |-> t[i].ev]

\* --------------------------- table renderer ---------------------------- *\

\* the cells of a row: None, an int, a str
Null == [t |-> "null", i |-> 0, s |-> <<>>]
IntCell(i) == [t |-> "int", i |-> i, s |-> <<>>]
TextCell(s) == [t |-> "text", i |-> 0, s |-> s]

DigitChars == <<"0", "1", "2", "3", "4", "5", "6", "7", "8", "9">>

\* the decimal digits of a natural number
RECURSIVE Digits(_)
Digits(n) ==
    IF n < 10 THEN <<DigitChars[n + 1]>>
    ELSE Digits(n \div 10) \o <<DigitChars[(n % 10) + 1]>>

\* str(v) of an int
StrInt(i) == IF i < 0 THEN <<"-">> \o Digits(-i) ELSE Digits(i)

\* str("" if v is None else v)
Display(v) ==
    CASE v.t = "null" -> <<>>
      [] v.t = "int" -> StrInt(v.i)
      [] v.t = "text" -> v.s

\* str.ljust(w): nothing is cut when the text is longer than w
LJust(s, w) == s \o [j \in 1..(w - Len(s)) |-> " "]

\* sep.join(parts)
RECURSIVE JoinWith(_, _)
JoinWith(sep, parts) ==
    IF parts = <<>> THEN <<>>
    ELSE IF Len(parts) = 1 THEN parts[1]
    ELSE parts[1] \o sep \o JoinWith(sep, Tail(parts))

Max(a, b) == IF a >= b THEN a ELSE b

\* the loop over the rows that widens the columns, without the loop
Widths_headersOnly(widths, rows) == widths

\* the loop over the rows that widens the columns (a row with more cells than
\* there are headers raises IndexError; cursor rows have the headers' arity)
RECURSIVE Widths(_, _)
Widths(widths, rows) ==
    IF rows = <<>> THEN widths
    ELSE Widths([i \in 1..Len(widths) |->
                    IF i <= Len(Head(rows))
                    THEN Max(widths[i], Len(Display(Head(rows)[i])))
                    ELSE widths[i]],
                Tail(rows))

\* fmt_row, given the texts of the cells
FmtRow(cells, widths) ==
    JoinWith(<<" ", "|", " ">>, [i \in 1..Len(cells) |-> LJust(cells[i], widths[i])])

NoColumns == <<"(", "n", "o", " ", "c", "o", "l", "u", "m", "n", "s", ")">>

\* _format_table(headers, rows)
FormatTable(headers, rows) ==
    IF headers = <<>> THEN NoColumns
    ELSE LET widths == Widths([i \in 1..Len(headers) |-> Len(headers[i])], rows)
             sep == JoinWith(<<"-", "+", "-">>,
                             [i \in 1..Len(widths) |-> [j \in 1..widths[i] |-> "-"]])
             out == <<FmtRow(headers, widths), sep>>
                    \o [k \in 1..Len(rows) |->
                          FmtRow([i \in 1..Len(rows[k]) |-> Display(rows[k][i])], widths)]
         IN JoinNL(out)

\* --------------------------- the database ------------------------------ *\

EmptyDB == [exists |-> FALSE, rows |-> {}]

NoTxn == [open |-> FALSE, db |-> EmptyDB]

\* the committed content behind a session's identifier
Committed(s) == IF s.rt.path = MEMORY THEN s.mem ELSE s.files[s.rt.path]

\* what the session's handle reads: its open transaction, else the committed
\* content
View(s) == IF s.txn.open THEN s.txn.db ELSE Committed(s)

\* the session after its handle wrote db: into the open transaction, else
\* committed at once (isolation_level = None: autocommit)
WriteDB(s, db) ==
    IF s.txn.open THEN [s EXCEPT !.txn.db = db]
    ELSE IF s.rt.path = MEMORY THEN [s EXCEPT !.mem = db]
    ELSE [s EXCEPT !.files[s.rt.path] = db]

\* the rows of a relation as cursor.fetchall() lists them
RECURSIVE RowList(_)
RowList(rows) ==
    IF rows = {} THEN <<>>
    ELSE LET v == CHOOSE x \in rows : \A y \in rows : x <= y
         IN <<v>> \o RowList(rows \ {v})

DbErr(s, msg) == [s |-> s, outcome |-> "error", msg |-> msg, cols |-> <<>>, rows |-> <<>>]
DbDone(s) == [s |-> s, outcome |-> "nodata", msg |-> "", cols |-> <<>>, rows |-> <<>>]

\* a statement's text without its terminators and surrounding whitespace
RECURSIVE Unterminated(_)
Unterminated(sql) ==
    LET t == Strip(sql)
    IN IF t # <<>> /\ t[Len(t)] = ";"
       THEN Unterminated(SubSeq(t, 1, Len(t) - 1)) ELSE t

\* sqlite3.Connection.execute(sql) followed by fetchall(): the engine of the
\* model knows one relation, items(id INTEGER UNIQUE), and these statements,
\* each written as its keyword alone: CREATE (the relation), INSERT (the row
\* 1), SELECT (all rows), DROP (the relation), BEGIN, COMMIT. fault: the engine fails for a reason
\* of its own (locked file, I/O error). A failed statement changes nothing.
ConnExecute(s, sql, fault) ==
    LET words == Split(Unterminated(sql))
        db == View(s)
    IN IF fault THEN DbErr(s, "database is locked")
       ELSE IF words = <<>> THEN DbDone(s)
       ELSE IF Len(words) > 1 THEN DbErr(s, "syntax error")
       ELSE IF words[1] = kwCREATE THEN
            IF db.exists THEN DbErr(s, "table items already exists")
            ELSE DbDone(WriteDB(s, [db EXCEPT !.exists = TRUE]))
       ELSE IF words[1] = kwINSERT THEN
            IF ~db.exists THEN DbErr(s, "no such table: items")
            ELSE IF 1 \in db.rows THEN DbErr(s, "UNIQUE constraint failed: items.id")
            ELSE DbDone(WriteDB(s, [db EXCEPT !.rows = db.rows \cup {1}]))
       ELSE IF words[1] = kwSELECT THEN
            IF ~db.exists THEN DbErr(s, "no such table: items")
            ELSE [s |-> s, outcome |-> "rows", msg |-> "",
                  cols |-> <<colId>>, rows |-> RowList(db.rows)]
       ELSE IF words[1] = kwDROP THEN
            IF ~db.exists THEN DbErr(s, "no such table: items")
            ELSE DbDone(WriteDB(s, EmptyDB))
       ELSE IF words[1] = kwBEGIN THEN
            IF s.txn.open THEN DbErr(s, "cannot start a transaction within a transaction")
            ELSE DbDone([s EXCEPT !.txn = [open |-> TRUE, db |-> Committed(s)]])
       ELSE IF words[1] = kwCOMMIT THEN
            IF ~s.txn.open THEN DbErr(s, "cannot commit - no transaction is active")
            ELSE DbDone([WriteDB([s EXCEPT !.txn = NoTxn], s.txn.db) EXCEPT !.txn = NoTxn])
       ELSE DbErr(s, "syntax error")

\* sqlite3.Connection.rollback(): ends the open transaction, if any, and
\* discards its changes; failed: rollback itself raised sqlite3.Error
ConnRollback_none(s, failed) == s

ConnRollback(s, failed) ==
    IF failed THEN s ELSE [s EXCEPT !.txn = NoTxn]

\* ------------------------- session operations ------------------------- *\

\* the session as one value: the fields of QT and Runtime, the handles and
\* the databases behind them
Sess == [rt |-> rt, openConns |-> openConns, nextConn |-> nextConn,
         files |-> files, mem |-> mem, txn |-> txn,
         buffer |-> _buffer, timer |-> _timer, readline |-> _readline]

\* what an operation returns: the session after it, what it printed and
\* called, and the exception it raised ("none" if it returned)
Res(s, t, raised) == [s |-> s, trace |-> t, raised |-> raised]

\* QT._prompt
Prompt(s) ==
    IF s.buffer = <<>> THEN Basename(s.rt.path) \o <<"$", " ">>
    ELSE <<".", ".", ".", " ">>

\* _print_table(headers, rows)
PrintTable_noEmpty(headers, rows) ==
    IF headers = <<>> THEN <<Say("nocolumns")>>
    ELSE <<Ev("table", headers, Len(rows))>>

PrintTable(headers, rows) ==
    IF headers = <<>> THEN <<Say("nocolumns")>>
    ELSE <<Ev("table", headers, Len(rows))>>
         \o (IF rows = <<>> THEN <<Say("empty")>> ELSE <<>>)

\* QT._save_history; werr: write_history_file raises
SaveHistory_raising(s, werr) ==
    Res(s, <<Ev("save_history", <<>>, IF s.readline THEN 1 ELSE 0)>>,
        IF s.readline /\ werr THEN "OSError" ELSE "none")

SaveHistory(s, werr) ==
    Res(s, <<Ev("save_history", <<>>, IF s.readline THEN 1 ELSE 0)>>, "none")

\* QT._list_tables reading what was committed, not what its handle sees
ListTables_committed(s) == IF Committed(s).exists THEN <<ITEMS>> ELSE <<>>

\* QT._list_tables; raises sqlite3.Error on fault
ListTables(s) == IF View(s).exists THEN <<ITEMS>> ELSE <<>>

\* QT._m_help
M_help(s, args) == Res(s, <<Say("HELP")>>, "none")

\* QT._m_exit: try: save history, close; finally: print, sys.exit(0)
M_exit(s, werr) ==
    LET h == SaveHistory(s, werr)
        closed == IF h.raised = "none"
                  THEN <<Ev("close", <<>>, s.rt.conn)>> ELSE <<>>
        s1 == IF h.raised = "none"
              THEN [s EXCEPT !.openConns = @ \ {s.rt.conn}, !.txn = NoTxn]
              ELSE s
    IN Res(s1, h.trace \o closed \o <<Say("Bye"), Ev("exit", <<>>, 0)>>,
           "SystemExit")

\* QT._open(path); how: what the file system and sqlite3.connect do with the
\* path ("ok", "oserror": os.makedirs raises OSError, "dberror":
\* sqlite3.connect raises sqlite3.Error). The result carries the new Runtime
\* in rt, and leaves the binding of the session to the caller.
Open(s, path, how) ==
    LET mk == IF path # MEMORY THEN <<Ev("makedirs", <<path>>, 0)>> ELSE <<>>
        h == s.nextConn + 1
    IN IF path # MEMORY /\ how = "oserror" THEN Res(s, mk, "OSError")
       ELSE IF how = "dberror"
            THEN Res(s, mk \o <<Ev("connect", <<path>>, 0)>>, "sqlite3.Error")
       ELSE Res([s EXCEPT !.nextConn = h, !.openConns = @ \cup {h},
                          !.rt = [conn |-> h, path |-> path]],
                mk \o <<Ev("connect", <<path>>, h)>>, "none")

\* QT._m_open(args); gc: the runtime finalises the Runtime the rebinding drops
\* (and so closes its connection) at once
M_open_closeFirst(s, args, how, gc) ==
    IF args = <<>> THEN Res(s, <<Say("Usage")>>, "none")
    ELSE LET c == [s EXCEPT !.openConns = @ \ {s.rt.conn}, !.txn = NoTxn]
             o == Open(c, args[1], how)
         IN IF o.raised # "none" THEN Res(c, o.trace, o.raised)
            ELSE Res([o.s EXCEPT !.mem = EmptyDB],
                     o.trace \o <<Ev("Opened", <<args[1]>>, 0)>>, "none")

M_open(s, args, how, gc) ==
    IF args = <<>> THEN Res(s, <<Say("Usage")>>, "none")
    ELSE LET o == Open(s, args[1], how)
         IN IF o.raised # "none" THEN Res(s, o.trace, o.raised)
            ELSE Res([o.s EXCEPT !.txn = NoTxn, !.mem = EmptyDB,
                                 !.openConns = IF gc THEN @ \ {s.rt.conn} ELSE @],
                     o.trace \o <<Ev("Opened", <<args[1]>>, 0)>>, "none")

\* QT._m_tables(args)
M_tables(s, args, fault) ==
    IF fault THEN Res(s, <<Ev("SQLerror", << <<"database is locked">> >>, 0)>>, "none")
    ELSE IF args = <<>>
         THEN Res(s, <<IF ListTables(s) # <<>>
                       THEN Ev("names", ListTables(s), 0)
                       ELSE Say("notables")>>, "none")
    ELSE IF ~(View(s).exists /\ args[1] = ITEMS)
         THEN Res(s, <<Ev("nosuchtable", <<args[1]>>, 0)>>, "none")
    ELSE Res(s, PrintTable(<<colId>>, RowList(View(s).rows)), "none")

\* QT._m_schema(args)
M_schema(s, args, fault) ==
    IF fault THEN Res(s, <<Ev("SQLerror", << <<"database is locked">> >>, 0)>>, "none")
    ELSE IF args = <<>>
         THEN Res(s, <<IF View(s).exists
                       THEN Ev("schema", <<ITEMS>>, 0)
                       ELSE Say("emptyschema")>>, "none")
    ELSE IF ~(View(s).exists /\ args[1] = ITEMS)
         THEN Res(s, <<Ev("nosuchobject", <<args[1]>>, 0)>>, "none")
    ELSE Res(s, <<Ev("schema", <<ITEMS>>, 0)>>, "none")

\* QT._m_dump
M_dump(s, args, fault) ==
    IF fault THEN Res(s, <<Ev("SQLerror", << <<"database is locked">> >>, 0)>>, "none")
    ELSE Res(s, <<Ev("dump", IF View(s).exists THEN <<ITEMS>> ELSE <<>>,
                     Cardinality(View(s).rows))>>, "none")

\* QT._exec_sql with the timing line in the try block, not in finally
ExecSql_timeOnSuccess(s, sql, fault, rbfail) ==
    LET r == ConnExecute(s, sql, fault)
        call == <<Ev("execute", <<sql>>, 0)>>
        time == IF s.timer THEN <<Say("Time")>> ELSE <<>>
    IN IF r.outcome = "error"
       THEN Res(ConnRollback(r.s, rbfail),
                call \o <<Ev("rollback", <<>>, IF rbfail THEN 0 ELSE 1),
                          Ev("SQLerror", << <<r.msg>> >>, 0)>>,
                "none")
       ELSE IF r.outcome = "nodata"
            THEN Res(r.s, call \o <<Say("OK")>> \o time, "none")
       ELSE Res(r.s, call \o PrintTable(r.cols, r.rows) \o time, "none")

\* QT._exec_sql(sql); fault: the engine fails, rbfail: rollback() raises
ExecSql(s, sql, fault, rbfail) ==
    LET r == ConnExecute(s, sql, fault)
        call == <<Ev("execute", <<sql>>, 0)>>
        time == IF s.timer THEN <<Say("Time")>> ELSE <<>>
    IN IF r.outcome = "error"
       THEN Res(ConnRollback(r.s, rbfail),
                call \o <<Ev("rollback", <<>>, IF rbfail THEN 0 ELSE 1), Ev("SQLerror", << <<r.msg>> >>, 0)>> \o time,
                "none")
       ELSE IF r.outcome = "nodata"
            THEN Res(r.s, call \o <<Say("OK")>> \o time, "none")
       ELSE Res(r.s, call \o PrintTable(r.cols, r.rows) \o time, "none")

\* self._meta.get(name): the registered name, or None (the empty text)
Lookup_nocase(name) == IF Lower(name) \in MetaNames THEN Lower(name) ELSE <<>>

Lookup(name) == IF name \in MetaNames THEN name ELSE <<>>

\* parts[1:], the arguments handed to a handler
Args(parts) == Tail(parts)

\* the handler registered under a name, run
Handler(name, s, args, env) ==
    CASE name = dotHelp -> M_help(s, args)
      [] name = dotExit -> M_exit(s, env.werr)
      [] name = dotOpen -> M_open(s, args, env.how, env.gc)
      [] name = dotTables -> M_tables(s, args, env.fault)
      [] name = dotSchema -> M_schema(s, args, env.fault)
      [] name = dotDump -> M_dump(s, args, env.fault)

\* QT._handle_meta(line): ret is its return value
HandleMeta(s, line, env) ==
    LET parts == Split(line)
        fn == Lookup(parts[1])
    IN IF fn = <<>>
       THEN [s |-> s, trace |-> <<>>, raised |-> "none", ret |-> FALSE]
       ELSE LET h == Handler(fn, s, Args(parts), env)
                call == <<Ev("handler", <<fn>> \o Args(parts), 0)>>
            IN IF h.raised = "sqlite3.Error"
               THEN [s |-> h.s, raised |-> "none", ret |-> TRUE,
                     trace |-> call \o h.trace \o <<Say("Error")>>]
               ELSE [s |-> h.s, raised |-> h.raised, ret |-> TRUE,
                     trace |-> call \o h.trace]

\* the test of QT.run that sends a line to the meta-command dispatcher
IsMeta_anyState(s, line) == StartsWith(line, <<".">>)

IsMeta(s, line) == s.buffer = <<>> /\ StartsWith(line, <<".">>)

\* self._buffer.clear()
ClearBuffer_keep(s) == s

ClearBuffer(s) == [s EXCEPT !.buffer = <<>>]

\* the test "if not line" of QT.run, never true
IsBlank_never(line) == FALSE

\* the test "if not line" of QT.run, on the stripped line
IsBlank(line) == line = <<>>

\* the test line.endswith(";") of QT.run, never true
Terminated_never(line) == FALSE

\* the test line.endswith(";") of QT.run
Terminated(line) == EndsWith(line, <<";">>)

\* one turn of the loop of QT.run on the line _read_line returned
RunBody(s, line, env) ==
    IF IsBlank(line) THEN Res(s, <<>>, "none")
    ELSE IF IsMeta(s, line)
    THEN LET m == HandleMeta(s, line, env)
             unknown == IF m.ret THEN <<>> ELSE <<Say("Unknown")>>
             h == SaveHistory(m.s, env.werr)
         IN IF m.raised # "none" THEN Res(m.s, m.trace, m.raised)
            ELSE Res(h.s, m.trace \o unknown \o h.trace, h.raised)
    ELSE LET buf == Append(s.buffer, line)
         IN IF Terminated(line)
            THEN LET x == ExecSql(ClearBuffer([s EXCEPT !.buffer = buf]), JoinNL(buf),
                                  env.fault, env.rbfail)
                     h == SaveHistory(x.s, env.werr)
                 IN IF x.raised # "none" THEN x
                    ELSE Res(h.s, x.trace \o h.trace, h.raised)
            ELSE Res([s EXCEPT !.buffer = buf], <<>>, "none")

\* QT._read_line when input() raises EOFError or KeyboardInterrupt
ReadInterrupted(s, werr) ==
    LET x == M_exit(s, werr)
    IN Res(x.s, <<Say("blank")>> \o x.trace, x.raised)

\* ----------------------------- completion ---------------------------- *\

\* the characters of the model in the order of their code points
Ascii == <<"\t", "\n", " ", "!", "(", ")", "*", ",", ".", "/",
           "0", "1", "2", "3", "4", "5", "6", "7", "8", "9",
           ":", ";", "<", "=", ">">> \o UpperLetters \o <<"_">> \o LowerLetters

\* the place of each character in that order
CodeOf == [c \in {Ascii[i] : i \in 1..Len(Ascii)} |-> IndexIn(Ascii, c)]

\* a < b as Python compares strings
RECURSIVE StrLess(_, _)
StrLess(a, b) ==
    IF b = <<>> THEN FALSE
    ELSE IF a = <<>> THEN TRUE
    ELSE IF Head(a) = Head(b) THEN StrLess(Tail(a), Tail(b))
    ELSE CodeOf[Head(a)] < CodeOf[Head(b)]

\* a sorted list without duplicates, with x put in its place
RECURSIVE Insert(_, _)
Insert(x, q) ==
    IF q = <<>> THEN <<x>>
    ELSE IF x = Head(q) THEN q
    ELSE IF StrLess(x, Head(q)) THEN <<x>> \o q
    ELSE <<Head(q)>> \o Insert(x, Tail(q))

\* sorted(set(q)) of a list of strings
RECURSIVE SortedSet(_)
SortedSet(q) ==
    IF q = <<>> THEN <<>> ELSE Insert(Head(q), SortedSet(Tail(q)))

\* the last two lines of QT._complete with no sorting and no set
Nth_asGiven(candidates, state) ==
    IF state < Len(candidates) THEN <<candidates[state + 1]>> ELSE <<>>

\* the last two lines of QT._complete: candidates = sorted(set(candidates)),
\* then candidates[state] (as <<candidate>>) or None (as <<>>)
Nth(candidates, state) ==
    LET sorted == SortedSet(candidates)
    IN IF state < Len(sorted) THEN <<sorted[state + 1]>> ELSE <<>>

\* the registry's names, in the order of the dict self._meta
MetaKeys == <<dotHelp, dotExit, dotOpen, dotTables, dotSchema, dotDump>>

\* [x for x in q if x.startswith(prefix)]
RECURSIVE WithPrefix(_, _)
WithPrefix(q, prefix) ==
    IF q = <<>> THEN <<>>
    ELSE (IF StartsWith(Head(q), prefix) THEN <<Head(q)>> ELSE <<>>)
         \o WithPrefix(Tail(q), prefix)

\* the regular-expression classes [A-Za-z_] and [A-Za-z0-9_]
IsIdentStart(c) == IsLower(c) \/ IsUpper(c) \/ c = "_"
IsIdentChar(c) ==
    IsIdentStart(c) \/ c \in {"0", "1", "2", "3", "4", "5", "6", "7", "8", "9"}

\* the identifier tokens re.findall gives for the text before the cursor: at
\* each place an identifier is matched as far as it goes, and any other
\* character is passed over (as another token, or as an empty match)
RECURSIVE IdentsFrom(_, _, _)
IdentsFrom(t, cur, acc) ==
    IF t = <<>> THEN (IF cur = <<>> THEN acc ELSE Append(acc, cur))
    ELSE IF cur = <<>>
         THEN IdentsFrom(Tail(t), IF IsIdentStart(Head(t)) THEN <<Head(t)>> ELSE <<>>, acc)
    ELSE IF IsIdentChar(Head(t)) THEN IdentsFrom(Tail(t), Append(cur, Head(t)), acc)
    ELSE IdentsFrom(Tail(t), <<>>, Append(acc, cur))

\* upper_tokens
UpperTokens(before) ==
    LET ids == IdentsFrom(before, <<>>, <<>>)
    IN [i \in 1..Len(ids) |-> Upper(ids[i])]

KEY_TABLE == {<<"F", "R", "O", "M">>, <<"J", "O", "I", "N">>, <<"U", "P", "D", "A", "T", "E">>, <<"I", "N", "T", "O">>, <<"T", "A", "B", "L", "E">>}
KEY_COLUMN == {<<"S", "E", "L", "E", "C", "T">>,
               <<"W", "H", "E", "R", "E">>,
               <<"O", "N">>,
               <<"G", "R", "O", "U", "P">>,
               <<"O", "R", "D", "E", "R">>,
               <<"H", "A", "V", "I", "N", "G">>,
               <<"S", "E", "T">>}

KW == <<
    <<"S", "E", "L", "E", "C", "T">>,
    <<"F", "R", "O", "M">>,
    <<"W", "H", "E", "R", "E">>,
    <<"J", "O", "I", "N">>,
    <<"L", "E", "F", "T">>,
    <<"R", "I", "G", "H", "T">>,
    <<"I", "N", "N", "E", "R">>,
    <<"O", "U", "T", "E", "R">>,
    <<"G", "R", "O", "U", "P">>,
    <<"B", "Y">>,
    <<"O", "R", "D", "E", "R">>,
    <<"H", "A", "V", "I", "N", "G">>,
    <<"L", "I", "M", "I", "T">>,
    <<"I", "N", "S", "E", "R", "T">>,
    <<"I", "N", "T", "O">>,
    <<"V", "A", "L", "U", "E", "S">>,
    <<"U", "P", "D", "A", "T", "E">>,
    <<"S", "E", "T">>,
    <<"D", "E", "L", "E", "T", "E">>,
    <<"C", "R", "E", "A", "T", "E">>,
    <<"T", "A", "B", "L", "E">>,
    <<"V", "I", "E", "W">>,
    <<"I", "N", "D", "E", "X">>
>>

\* the scan of upper_tokens from the end for the first keyword that says
\* what is wanted: "table", "column" or "none"
RECURSIVE Want(_)
Want(toks) ==
    IF toks = <<>> THEN "none"
    ELSE IF toks[Len(toks)] \in KEY_TABLE THEN "table"
    ELSE IF toks[Len(toks)] \in KEY_COLUMN THEN "column"
    ELSE Want(SubSeq(toks, 1, Len(toks) - 1))

\* re.search(r'([A-Za-z_][A-Za-z0-9_]*)\.$', before): group 1, or the empty
\* text when there is no match
TableBeforeDot(before) ==
    IF before = <<>> \/ before[Len(before)] # "." THEN <<>>
    ELSE LET n == Len(before) - 1
             starts == {i \in 1..n : /\ IsIdentStart(before[i])
                                     /\ \A j \in i..n : IsIdentChar(before[j])}
         IN IF starts = {} THEN <<>>
            ELSE SubSeq(before, CHOOSE i \in starts : \A k \in starts : i <= k, n)

\* QT._list_columns(table): the engine matches the name without regard to
\* case; a database error gives no columns
ListColumns(s, table, fault) ==
    IF ~fault /\ View(s).exists /\ Lower(table) = ITEMS THEN <<colId>> ELSE <<>>

\* QT._all_columns
AllColumns(s, fault) ==
    IF ListTables(s) = <<>> THEN <<>> ELSE ListColumns(s, ListTables(s)[1], fault)

\* the characters at which readline breaks words: get_completer_delims()
\* without '.' and '_'
Delims == {" ", "\t", "\n", "!", "(", ")", "*", ",", "/", ":", ";", "<", "=", ">"}

\* readline.get_begidx() with the cursor at the end of the line
Begidx(lb) ==
    LET ds == {i \in 1..Len(lb) : lb[i] \in Delims}
    IN IF ds = {} THEN 0 ELSE CHOOSE i \in ds : \A k \in ds : k <= i

\* the candidates QT._complete derives, before sorted(set(...)), and whether
\* deriving them asks the database for its relations
Candidates(s, before, text, fault) ==
    LET bs == Strip(before)
        tables == WithPrefix(ListTables(s), text)
    IN IF StartsWith(bs, <<".">>)
       THEN IF Len(Split(bs)) <= 1
            THEN [asks |-> FALSE,
                  list |-> SortedSet(WithPrefix(MetaKeys, text))]
            ELSE IF Split(bs)[1] \in {dotTables, dotSchema}
                 THEN [asks |-> TRUE, list |-> tables]
                 ELSE [asks |-> FALSE, list |-> <<>>]
       ELSE IF TableBeforeDot(before) # <<>>
            THEN [asks |-> FALSE,
                  list |-> WithPrefix(ListColumns(s, TableBeforeDot(before), fault), text)]
       ELSE IF Want(UpperTokens(before)) = "table"
            THEN [asks |-> TRUE, list |-> tables]
       ELSE IF Want(UpperTokens(before)) = "column"
            THEN [asks |-> TRUE, list |-> WithPrefix(AllColumns(s, fault), text)]
       ELSE [asks |-> TRUE, list |-> WithPrefix(KW, Upper(text)) \o tables]

\* QT._complete(text, state) on the line buffer lb; fault: the database
\* raises sqlite3.Error while it is asked
Complete(s, lb, state, fault) ==
    LET beg == Begidx(lb)
        before == SubSeq(lb, 1, beg)
        text == SubSeq(lb, beg + 1, Len(lb))
        c == Candidates(s, before, text, fault)
        nth == Nth(c.list, state)
    IN IF ~s.readline THEN Res(s, <<Ev("nocandidate", <<>>, state)>>, "none")
       ELSE IF c.asks /\ fault THEN Res(s, <<>>, "sqlite3.Error")
       ELSE IF nth # <<>>
            THEN Res(s, <<Ev("candidate", nth, state)>>, "none")
       ELSE Res(s, <<Ev("nocandidate", <<>>, state)>>, "none")

\* the completer readline calls: _complete inside try / except Exception
Completer_propagating(s, lb, state, fault) == Complete(s, lb, state, fault)

Completer(s, lb, state, fault) ==
    LET r == Complete(s, lb, state, fault)
    IN IF r.raised # "none"
       THEN Res(r.s, <<Ev("nocandidate", <<>>, state)>>, "none")
       ELSE r

\* the line buffers completion is requested on (the cursor at the end)
CompLines == {
    <<>>,
    <<".", "e", "x">>,
    dotTables \o <<" ">> \o <<"i", "t">>,
    dotSchema \o <<" ", "x", " ", "i">>,
    dotOpen \o <<" ", "x", " ">>,
    kwSELECT \o <<" ", "*", " ", "F", "R", "O", "M", " ">>,
    <<"s", "e", "l", "e", "c", "t", " ", "i">>,
    <<"S", "E">>,
    ITEMS \o <<".">>
}

\* ------------------------------ actions -------------------------------- *\

\* the step leaves the session as r.s, and the process where r.raised says
Becomes(r) ==
    /\ rt' = r.s.rt
    /\ openConns' = r.s.openConns
    /\ nextConn' = r.s.nextConn
    /\ files' = r.s.files
    /\ mem' = r.s.mem
    /\ txn' = r.s.txn
    /\ _buffer' = r.s.buffer
    /\ _timer' = r.s.timer
    /\ _readline' = r.s.readline
    /\ trace' = r.trace
    /\ pc' = CASE r.raised = "none" -> "read"
               [] r.raised = "SystemExit" -> "exited"
               [] OTHER -> "crashed"
    /\ status' = CASE r.raised = "none" -> -1
                   [] r.raised = "SystemExit" -> 0
                   [] OTHER -> 1

\* the statement the line completes fails in the engine
Fails(s, line) ==
    ConnExecute(s, JoinNL(Append(s.buffer, line)), FALSE).outcome = "error"

\* the choices of the environment that a line's handling depends on
EnvFor(s, line) ==
    LET parts == Split(line)
        meta == line # <<>> /\ s.buffer = <<>> /\ StartsWith(line, <<".">>)
        flush == line # <<>> /\ ~meta /\ EndsWith(line, <<";">>)
        opens == meta /\ parts[1] = dotOpen /\ Len(parts) > 1
        reads == meta /\ parts[1] \in {dotTables, dotSchema, dotDump}
        exits == meta /\ parts[1] = dotExit
    IN [fault : IF flush \/ reads THEN BOOLEAN ELSE {FALSE},
        rbfail : IF flush THEN BOOLEAN ELSE {FALSE},
        how : IF opens
              THEN (IF parts[2] = MEMORY THEN {"ok"} ELSE {"ok", "oserror", "dberror"})
              ELSE {"ok"},
        gc : IF opens THEN BOOLEAN ELSE {FALSE},
        werr : IF (meta \/ flush) /\ s.readline THEN BOOLEAN ELSE {FALSE}]

\* QT.__init__ and main, without a command-line argument: the session is
\* bound to a fresh in-memory database, the buffer is empty, timing is off
InitSession ==
    /\ pc = "start"
    /\ status = -1
    /\ rt = [conn |-> 1, path |-> MEMORY]
    /\ openConns = {1}
    /\ nextConn = 1
    /\ files = [p \in FilePaths |-> EmptyDB]
    /\ mem = EmptyDB
    /\ txn = NoTxn
    /\ _buffer = <<>>
    /\ _timer = FALSE
    /\ _readline = FALSE
    /\ trace = <<>>
    /\ op = "init"
    /\ lastLine = <<>>

\* no pure function is looked at on its own
InitPure ==
    /\ tblHeaders = <<>>
    /\ tblRows = <<>>
    /\ tblText = <<>>
    /\ cands = <<>>
    /\ reqState = 0
    /\ picked = <<>>

Init == InitSession /\ InitPure

\* QT.run before the loop: _setup_readline (readline may be missing), banner
Setup ==
    /\ pc = "start"
    /\ \E rl \in BOOLEAN : _readline' = rl
    /\ pc' = "read"
    /\ trace' = <<Say("BANNER")>>
    /\ op' = "setup"
    /\ UNCHANGED <<status, rt, openConns, nextConn, files, mem, txn,
                   _buffer, _timer, lastLine>>
    /\ UNCHANGED pureVars

\* QT._read_line up to input(): the prompt is shown and the process waits
ShowPrompt ==
    /\ pc = "read"
    /\ pc' = "input"
    /\ trace' = <<Ev("prompt", <<Prompt(Sess)>>, 0)>>
    /\ op' = "prompt"
    /\ lastLine' = <<>>
    /\ UNCHANGED <<status, rt, openConns, nextConn, files, mem, txn,
                   _buffer, _timer, _readline>>
    /\ UNCHANGED pureVars

\* input() returns a line: the rest of the turn of the loop
ReadLine ==
    /\ pc = "input"
    /\ \E raw \in (IF _buffer = <<>> THEN IdleLines ELSE ContLines) :
         LET line == Strip(raw)
         IN /\ Len(_buffer) < MaxBuf \/ line = <<>> \/ EndsWith(line, <<";">>)
            /\ nextConn < MaxConns \/ _buffer # <<>> \/ ~StartsWith(line, dotOpen)
            /\ \E env \in EnvFor(Sess, line) :
                 /\ env.rbfail => (env.fault \/ Fails(Sess, line))
                 /\ \E r \in {RunBody(Sess, line, env)} : Becomes(r)
            /\ lastLine' = line
    /\ op' = "line"
    /\ UNCHANGED pureVars

\* input() raises EOFError or KeyboardInterrupt
ReadEOF ==
    /\ pc = "input"
    /\ \E werr \in (IF _readline THEN BOOLEAN ELSE {FALSE}) :
         \E r \in {ReadInterrupted(Sess, werr)} : Becomes(r)
    /\ op' = "eof"
    /\ lastLine' = <<>>
    /\ UNCHANGED pureVars

\* readline calls the completer while input() waits for the line
CompleterCall ==
    /\ pc = "input"
    /\ _readline
    /\ \E lb \in CompLines, state \in 0..MaxState, fault \in BOOLEAN :
         \E r \in {Completer(Sess, lb, state, fault)} :
            /\ rt' = r.s.rt
            /\ openConns' = r.s.openConns
            /\ nextConn' = r.s.nextConn
            /\ files' = r.s.files
            /\ mem' = r.s.mem
            /\ txn' = r.s.txn
            /\ _buffer' = r.s.buffer
            /\ _timer' = r.s.timer
            /\ _readline' = r.s.readline
            /\ trace' = r.trace
            /\ pc' = IF r.raised = "none" THEN "completed" ELSE "crashed"
            /\ status' = IF r.raised = "none" THEN -1 ELSE 1
            /\ lastLine' = lb
    /\ op' = "complete"
    /\ UNCHANGED pureVars

\* the completer has returned: input() goes on waiting for the line
ResumeInput ==
    /\ pc = "completed"
    /\ pc' = "input"
    /\ trace' = <<Ev("prompt", <<Prompt(Sess)>>, 0)>>
    /\ op' = "prompt"
    /\ lastLine' = <<>>
    /\ UNCHANGED <<status, rt, openConns, nextConn, files, mem, txn,
                   _buffer, _timer, _readline>>
    /\ UNCHANGED pureVars

Next ==
    Setup \/ ShowPrompt \/ ReadLine \/ ReadEOF \/ CompleterCall \/ ResumeInput

Spec == Init /\ [][Next]_vars

\* ---------------- the end of QT._complete on its own ------------------- *\

\* texts QT._complete derives as candidates: keywords, relation names and
\* column names
CandStrings == {colId, ITEMS, <<"I", "N", "D", "E", "X">>, <<"I", "D">>, <<"i">>}

\* the lists of candidates the function is given
CandLists == UNION {[1..n -> CandStrings] : n \in 0..MaxCands}

InitNth ==
    /\ InitSession
    /\ tblHeaders = <<>>
    /\ tblRows = <<>>
    /\ tblText = <<>>
    /\ cands \in CandLists
    /\ reqState = 0
    /\ picked = <<>>

\* readline asks for the candidate of one index
NthCall ==
    /\ \E n \in 0..MaxState :
         /\ reqState' = n
         /\ picked' = Nth(cands, n)
    /\ op' = "nth"
    /\ UNCHANGED sessVars
    /\ UNCHANGED <<trace, lastLine, tblHeaders, tblRows, tblText, cands>>

NextNth == NthCall

SpecNth == InitNth /\ [][NextNth]_vars

\* ------------------- QT._exec_sql called directly ---------------------- *\

\* the statements a caller hands to _exec_sql
TestStatements == {
    kwCREATE \o <<";">>,
    kwINSERT \o <<";">>,
    kwSELECT \o <<";">>,
    kwDROP \o <<";">>,
    kwBEGIN \o <<";">>,
    kwCOMMIT \o <<";">>,
    <<"I", "N", "S", "E", "R", ";">>
}

\* qt = QT(":memory:"), after which the caller may set qt._timer = True
InitTest ==
    /\ pc = "start"
    /\ status = -1
    /\ rt = [conn |-> 1, path |-> MEMORY]
    /\ openConns = {1}
    /\ nextConn = 1
    /\ files = [p \in FilePaths |-> EmptyDB]
    /\ mem = EmptyDB
    /\ txn = NoTxn
    /\ _buffer = <<>>
    /\ _timer \in BOOLEAN
    /\ _readline = FALSE
    /\ trace = <<>>
    /\ op = "init"
    /\ lastLine = <<>>
    /\ InitPure

\* qt._exec_sql(sql)
ExecSqlCall ==
    /\ \E sql \in TestStatements, fault \in BOOLEAN, rbfail \in BOOLEAN :
         /\ rbfail => (fault \/ ConnExecute(Sess, sql, FALSE).outcome = "error")
         /\ \E r \in {ExecSql(Sess, sql, fault, rbfail)} :
              /\ rt' = r.s.rt
              /\ openConns' = r.s.openConns
              /\ nextConn' = r.s.nextConn
              /\ files' = r.s.files
              /\ mem' = r.s.mem
              /\ txn' = r.s.txn
              /\ _buffer' = r.s.buffer
              /\ _timer' = r.s.timer
              /\ _readline' = r.s.readline
              /\ trace' = r.trace
    /\ op' = "exec"
    /\ UNCHANGED <<pc, status, lastLine>>
    /\ UNCHANGED pureVars

NextTest == ExecSqlCall

SpecTest == InitTest /\ [][NextTest]_vars

\* ---------------------- _format_table on its own ----------------------- *\

\* the headers of a result: the column names of a cursor
HeaderLists == {<< <<"x">> >>, << colId, <<"n", "a", "m", "e">> >>}

\* the values of a cell: NULL, text (one with a newline in it), integers
Cells == {Null, TextCell(<<"p", "i">>), TextCell(<<"a", "\n", "b">>), IntCell(2), IntCell(-15)}

\* the lists of up to MaxRows rows of an arity
RowsOf(arity) == UNION {[1..n -> [1..arity -> Cells]] : n \in 0..MaxRows}

InitTable ==
    /\ InitSession
    /\ tblHeaders \in HeaderLists
    /\ tblRows \in RowsOf(Len(tblHeaders))
    /\ tblText = <<>>
    /\ cands = <<>>
    /\ reqState = 0
    /\ picked = <<>>

\* _print_table calls _format_table(headers, rows)
FormatTableCall ==
    /\ op = "init"
    /\ tblText' = FormatTable(tblHeaders, tblRows)
    /\ op' = "format"
    /\ UNCHANGED sessVars
    /\ UNCHANGED <<trace, lastLine, tblHeaders, tblRows, cands, reqState, picked>>

NextTable == FormatTableCall

SpecTable == InitTable /\ [][NextTable]_vars

\* ------------------------------ claims --------------------------------- *\

\* the kinds of trace events that are calls, not printed lines
CallKinds == {"execute", "rollback", "save_history", "close", "exit", "handler",
              "makedirs", "connect", "prompt"}

\* the events of a trace whose kind is not in kinds, in order
RECURSIVE Without(_, _)
Without(t, kinds) ==
    IF t = <<>> THEN <<>>
    ELSE IF Head(t).ev \in kinds THEN Without(Tail(t), kinds)
    ELSE <<Head(t)>> \o Without(Tail(t), kinds)

\* the lines a step printed
Printed(t) == Without(t, CallKinds)

\* a trace holds an event of the kind
Has(t, kind) == \E i \in 1..Len(t) : t[i].ev = kind

\* the step read a non-empty line that went to the buffer and ended it
FlushStep ==
    /\ op' = "line"
    /\ lastLine' # <<>>
    /\ EndsWith(lastLine', <<";">>)
    /\ ~(_buffer = <<>> /\ StartsWith(lastLine', <<".">>))

\* C1: whenever a line ending in ';' is appended to the buffer, from Idle or
\* from Continuing, exactly one statement is handed to the Execution Engine,
\* once; it is the newline-join of the buffered lines followed by that line,
\* in the order entered; the buffer is empty afterwards, whether the
\* execution succeeds or fails.
C1_Flush ==
    [][FlushStep =>
          /\ Only(trace', {"execute"})
               = <<Ev("execute", <<JoinNL(Append(_buffer, lastLine'))>>, 0)>>
          /\ _buffer' = <<>>]_vars

\* a statement of two lines was flushed from Continuing, and it failed
C1_Witness ==
    /\ op = "line"
    /\ _buffer = <<>>
    /\ Has(trace, "execute")
    /\ Has(trace, "SQLerror")
    /\ \E i \in 1..Len(Only(trace, {"execute"})[1].arg[1]) :
          Only(trace, {"execute"})[1].arg[1][i] = "\n"

\* the step read, with an empty buffer, a line that starts with '.'
IdleDotStep ==
    /\ op' = "line"
    /\ _buffer = <<>>
    /\ StartsWith(lastLine', <<".">>)

C3_NoDispatchWhileContinuing ==
    [][(op' = "line" /\ _buffer # <<>> /\ StartsWith(lastLine', <<".">>)) =>
          /\ ~Has(trace', "handler")
          /\ ~Has(trace', "Unknown")
          /\ pc' = "read"
          /\ UNCHANGED <<rt, openConns, nextConn>>
          /\ IF EndsWith(lastLine', <<";">>)
             THEN Only(trace', {"execute"})
                    = <<Ev("execute", <<JoinNL(Append(_buffer, lastLine'))>>, 0)>>
             ELSE _buffer' = Append(_buffer, lastLine')]_vars

\* .exit was typed at the continuation prompt and is now statement text
C3_Witness ==
    /\ op = "line"
    /\ pc = "read"
    /\ Len(_buffer) = 2
    /\ _buffer[2] = dotExit

\* the step is an explicit .exit at the Idle prompt, or an end-of-input or
\* interrupt during the read
ShutdownRequest ==
    \/ op' = "eof"
    \/ IdleDotStep /\ Split(lastLine')[1] = dotExit

\* C4: an explicit .exit in Idle state, and an end-of-input or interrupt
\* during a line read in either state, each lead to the same sequence:
\* history persistence is attempted (a failure is swallowed), the database
\* handle is closed, the farewell line is printed, the process exits with
\* status 0; the lines pending in the buffer are not executed.
C4_OrderlyShutdown ==
    [][/\ ShutdownRequest => pc' = "exited"
       /\ pc' = "exited" =>
            /\ ShutdownRequest
            /\ Without(trace', {"handler", "blank"})
                 = <<Ev("save_history", <<>>, IF _readline THEN 1 ELSE 0),
                     Ev("close", <<>>, rt.conn), Say("Bye"), Ev("exit", <<>>, 0)>>
            /\ status' = 0
            /\ rt.conn \notin openConns'
            /\ _buffer' = _buffer]_vars

\* the process exited on end-of-input with a line still pending
C4_Witness ==
    /\ pc = "exited"
    /\ op = "eof"
    /\ _buffer # <<>>
    /\ _readline

\* C5: the session loop ends only through an explicit exit request,
\* end-of-input or an interrupt, always through the orderly shutdown: no
\* error raised in a meta-command handler or in statement execution escapes
\* the loop.
C5_NothingEscapes == pc # "crashed"

\* the step handed a statement to the Execution Engine
ExecStep == op' = "line" /\ Has(trace', "execute")

\* the step handed over a statement that failed with a database error
FailedExecStep == ExecStep /\ Has(trace', "SQLerror")

\* C6 as claimed: when a submitted statement fails with a database-layer
\* error, a rollback is attempted, "SQL error: <message>" is reported, the
\* session goes on to the next read, and the database holds exactly the rows
\* it held just before the failed statement was submitted, the effect of
\* every statement executed successfully before it included.
C6_FailureKeepsEveryEarlierEffect ==
    [][FailedExecStep =>
          /\ Kinds(Only(trace', {"rollback", "SQLerror"})) = <<"rollback", "SQLerror">>
          /\ pc' = "read"
          /\ View(Sess)' = View(Sess)]_vars

\* C6, amended: when a submitted statement fails with a database-layer
\* error, a rollback is attempted (its own failure is swallowed), "SQL error:
\* <message>" is reported, the session goes on to the next read, and the
\* database holds exactly what was committed just before the failed
\* statement was submitted: the failed statement adds nothing, and the effect
\* of every statement executed successfully outside an explicit transaction
\* is still there; the uncommitted changes of a transaction that was open are
\* discarded when the rollback succeeds, and kept when it fails.
C6_FailureKeepsCommitted ==
    [][FailedExecStep =>
          /\ Kinds(Only(trace', {"rollback", "SQLerror"})) = <<"rollback", "SQLerror">>
          /\ pc' = "read"
          /\ UNCHANGED <<files, mem, rt>>
          /\ IF Only(trace', {"rollback"})[1].n = 1
             THEN txn' = NoTxn /\ View(Sess)' = Committed(Sess)
             ELSE txn' = txn /\ View(Sess)' = View(Sess)
          /\ ~txn.open => View(Sess)' = View(Sess)]_vars

\* a statement failed inside an open transaction, which was rolled back
C6_Witness ==
    /\ op = "line"
    /\ Only(trace, {"SQLerror"})
         = <<Ev("SQLerror", << <<"cannot start a transaction within a transaction">> >>, 0)>>
    /\ Only(trace, {"rollback"}) = <<Ev("rollback", <<>>, 1)>>
    /\ ~txn.open

\* C7: every executed statement produces exactly one of three outputs (the
\* timing line aside), decided by its outcome: exactly "OK" if and only if
\* it succeeds without column metadata; a table (its header, followed by
\* "(empty)" if and only if it has no rows) and no "OK" if and only if it
\* succeeds with column metadata; "SQL error: <message>" if and only if the
\* database raises an error.
C7_OneOutputPerOutcome ==
    [][ExecStep =>
          LET sql == Only(trace', {"execute"})[1].arg[1]
              r == ConnExecute(Sess, sql, FALSE)
              out == Without(Printed(trace'), {"Time"})
          IN \/ out = <<Ev("SQLerror", << <<"database is locked">> >>, 0)>>
             \/ /\ r.outcome = "nodata"
                /\ out = <<Say("OK")>>
             \/ /\ r.outcome = "rows"
                /\ r.cols # <<>>
                /\ out = <<Ev("table", r.cols, Len(r.rows))>>
                           \o (IF r.rows = <<>> THEN <<Say("empty")>> ELSE <<>>)
             \/ /\ r.outcome = "error"
                /\ out = <<Ev("SQLerror", << <<r.msg>> >>, 0)>>]_vars

\* a query of an empty relation printed its header and "(empty)"
C7_Witness ==
    /\ op = "line"
    /\ Has(trace, "execute")
    /\ Printed(trace) = <<Ev("table", <<colId>>, 0), Say("empty")>>

\* C8: after any sequence of commands the session has at most one open
\* database handle: a successful .open closes the previously bound handle
\* and binds the session to the new one.
C8_SingleConnection == openConns \subseteq {rt.conn}

\* the step is an .open at the Idle prompt without an argument, or one whose
\* connect raised a database error
FailedOpenStep ==
    /\ IdleDotStep
    /\ Split(lastLine')[1] = dotOpen
    /\ \/ Len(Split(lastLine')) = 1
       \/ \E i \in 1..Len(trace') : trace'[i].ev = "connect" /\ trace'[i].n = 0

\* C9: an .open that does not succeed, because no argument was given or
\* because connecting raised a database error, is reported and leaves the
\* session unchanged: the active handle, the identifier (and so the Idle
\* prompt), the buffer and the timing flag are what they were, and the old
\* handle is still open.
C9_FailedOpenChangesNothing ==
    [][FailedOpenStep =>
          /\ Has(trace', "Usage") \/ Has(trace', "Error")
          /\ ~Has(trace', "Opened")
          /\ pc' = "read"
          /\ UNCHANGED <<rt, openConns, nextConn, files, mem, txn, _buffer, _timer>>
          /\ rt.conn \in openConns'
          /\ Prompt(Sess)' = Prompt(Sess)]_vars

\* connecting failed while a transaction was open on the bound handle
C9_Witness ==
    /\ op = "line"
    /\ Has(trace, "Error")
    /\ \E i \in 1..Len(trace) : trace[i].ev = "connect" /\ trace[i].n = 0
    /\ txn.open
    /\ rt.conn \in openConns

\* C10: a completion request issued between reads, in either session state
\* and for any input, is total and free of side effects: it returns one
\* candidate or none, it never propagates an error, even when the database
\* raises while relations or columns are listed, and it leaves the buffer,
\* the database handle, the identifier and the timing flag unchanged.
C10_CompletionTotalAndPure ==
    [][op' = "complete" =>
          /\ pc' = "completed"
          /\ Len(trace') = 1
          /\ trace'[1].ev \in {"candidate", "nocandidate"}
          /\ trace'[1].ev = "candidate" => Len(trace'[1].arg) = 1
          /\ UNCHANGED <<rt, openConns, nextConn, files, mem, txn,
                         _buffer, _timer, _readline, status>>]_vars

\* with a line pending in the buffer and a relation in the database, a
\* request for relation names answered "none"
C10_Witness ==
    /\ op = "complete"
    /\ _buffer # <<>>
    /\ View(Sess).exists
    /\ lastLine = kwSELECT \o <<" ", "*", " ", "F", "R", "O", "M", " ">>
    /\ trace = <<Ev("nocandidate", <<>>, 0)>>

\* the candidates as a set
CandSet == {cands[i] : i \in 1..Len(cands)}

\* C11: for a fixed line context and a fixed schema (so for a fixed list of
\* derived candidates), the requests with index 0, 1, 2, ... return the
\* candidate set without duplicates in strictly ascending lexicographic
\* order: the request with index n returns the member of the set that has
\* exactly n members below it; every request with an index greater than or
\* equal to the number of candidates returns none. The answer is a function
\* of the candidates and the index, so a repeated request gets the same one.
C11_SortedDedupNone ==
    op = "nth" =>
        IF reqState < Cardinality(CandSet)
        THEN /\ Len(picked) = 1
             /\ picked[1] \in CandSet
             /\ Cardinality({y \in CandSet : StrLess(y, picked[1])}) = reqState
        ELSE picked = <<>>

\* the derived list was unsorted and held a candidate twice; the request
\* with the index 1 got the greater of the two, the one with the index 2
\* nothing
C11_Witness ==
    /\ op = "nth"
    /\ cands = <<ITEMS, <<"I", "D">>, ITEMS>>
    /\ \/ reqState = 1 /\ picked = <<ITEMS>>
       \/ reqState = 2 /\ picked = <<>>

\* what a completion step returned: <<candidate>>, or <<>> for none
Answer(t) == IF t[1].ev = "candidate" THEN t[1].arg ELSE <<>>

\* ans is what the request with the index n gets when the candidates are
\* the members of set, in ascending order
IsNthOf(ans, set, n) ==
    IF n < Cardinality(set)
    THEN /\ Len(ans) = 1
         /\ ans[1] \in set
         /\ Cardinality({y \in set : StrLess(y, ans[1])}) = n
    ELSE ans = <<>>

\* the user-visible relations of the currently bound database
Relations == IF View(Sess).exists THEN {ITEMS} ELSE {}

\* the text after the last whitespace of a line: the fragment at the cursor
Fragment(lb) ==
    IF lb = <<>> \/ IsSpace(lb[Len(lb)]) THEN <<>> ELSE Split(lb)[Len(Split(lb))]

\* C12: meta-command completion: when the fragment being completed is the
\* first token of a line that starts with '.', the candidates are exactly the
\* registry command names that have the fragment as a prefix; when the text
\* before the cursor is a command token followed by whitespace and the
\* fragment is its argument, the candidates are exactly the relation names
\* that have the fragment as a prefix if the command is .tables or .schema
\* (none when the database cannot be asked), and there are no candidates for
\* any other command.
C12_MetaCompletion ==
    [][(op' = "complete" /\ StartsWith(lastLine', <<".">>)) =>
          LET lb == lastLine'
              toks == Split(lb)
              frag == Fragment(lb)
              ans == Answer(trace')
              n == trace'[1].n
              first == Len(toks) = 1 /\ frag # <<>>
              argument == \/ Len(toks) = 1 /\ frag = <<>>
                          \/ Len(toks) = 2 /\ frag # <<>>
          IN /\ first => IsNthOf(ans, {m \in MetaNames : StartsWith(m, frag)}, n)
             /\ argument =>
                  IF toks[1] \in {dotTables, dotSchema}
                  THEN \/ IsNthOf(ans, {r \in Relations : StartsWith(r, frag)}, n)
                       \/ ans = <<>>
                  ELSE ans = <<>>]_vars

\* line contexts in which QT._complete offers relation names only
RelationContexts == {kwSELECT \o <<" ", "*", " ", "F", "R", "O", "M", " ">>,
                     dotSchema \o <<" ", "x", " ", "i">>}

\* C13: no stale schema: after any sequence of executed statements (CREATE,
\* DROP, ...) and .open commands, the relation names offered by completion
\* and listed by .tables are exactly the user-visible relations of the
\* currently bound database at the moment of the request (a request the
\* database fails to answer lists and offers nothing); nothing from before
\* the last statement or from a previously bound database is observed.
C13_NoStaleSchema ==
    [][/\ (op' = "line" /\ _buffer = <<>> /\ lastLine' = dotTables) =>
            \/ Printed(trace') = <<Ev("SQLerror", << <<"database is locked">> >>, 0)>>
            \/ Printed(trace') = <<IF Relations = {} THEN Say("notables")
                                   ELSE Ev("names", <<ITEMS>>, 0)>>
       /\ (op' = "complete" /\ lastLine' \in RelationContexts) =>
            \/ Answer(trace') = <<>>
            \/ IsNthOf(Answer(trace'),
                       {r \in Relations : StartsWith(r, Fragment(lastLine'))},
                       trace'[1].n)
       /\ (op' = "complete" /\ lastLine' \in RelationContexts
             /\ Relations # {} /\ trace'[1].n = 0) =>
            Answer(trace') \in {<<>>, <<ITEMS>>}]_vars

\* the relation was dropped inside a transaction that is still open, and
\* .tables lists nothing although the committed database still holds it
C13_Witness ==
    /\ op = "line"
    /\ lastLine = dotTables
    /\ Printed(trace) = <<Say("notables")>>
    /\ txn.open
    /\ Committed(Sess).exists

\* the greatest member of a non-empty set of numbers
SetMax(S) == CHOOSE m \in S : \A x \in S : x <= m

\* the length a cell counts for: NULL counts for nothing
CellLen(v) == IF v.t = "null" THEN 0 ELSE Len(Display(v))

\* the width the claim gives the column i
ColWidth(i) ==
    SetMax({Len(tblHeaders[i])}
           \cup {CellLen(tblRows[k][i]) : k \in 1..Len(tblRows)})

\* the columns before the column i, each with the three characters after it
RECURSIVE Offset(_)
Offset(i) == IF i = 1 THEN 0 ELSE Offset(i - 1) + ColWidth(i - 1) + 3

\* the length of every line of the table
LineLen == Offset(Len(tblHeaders)) + ColWidth(Len(tblHeaders))

\* the line k of the rendered text, and its column i, if every line has the
\* length LineLen
LineAt(k) == SubSeq(tblText, (k - 1) * (LineLen + 1) + 1, (k - 1) * (LineLen + 1) + LineLen)
CellAt(k, i) == SubSeq(LineAt(k), Offset(i) + 1, Offset(i) + ColWidth(i))

\* what lies between two columns of the line k
GapAt(k, i) == SubSeq(LineAt(k), Offset(i) + ColWidth(i) + 1, Offset(i) + ColWidth(i) + 3)

\* a text followed by blanks up to a width it does not exceed
IsPadded(cell, text, w) ==
    /\ Len(text) <= w
    /\ Len(cell) = w
    /\ SubSeq(cell, 1, Len(text)) = text
    /\ \A j \in (Len(text) + 1)..w : cell[j] = " "

\* C14: table rendering, for non-empty headers and rows of the headers'
\* arity: the width of each column equals the maximum of the header length
\* and the display length of every cell of that column over all rows, a NULL
\* cell counting as length 0; every cell, a NULL cell included, is padded to
\* exactly its column's width, so the header line, the separator line and
\* every row line have the same length (in characters) and no value is
\* truncated.
C14_TableWidths ==
    op = "format" =>
        LET cols == 1..Len(tblHeaders)
            m == Len(tblRows)
        IN /\ Len(tblText) = (m + 2) * LineLen + (m + 1)
           /\ \A k \in 1..(m + 1) : tblText[k * (LineLen + 1)] = "\n"
           /\ \A i \in cols :
                /\ IsPadded(CellAt(1, i), tblHeaders[i], ColWidth(i))
                /\ CellAt(2, i) = [j \in 1..ColWidth(i) |-> "-"]
                /\ i < Len(tblHeaders) =>
                     /\ GapAt(1, i) = <<" ", "|", " ">>
                     /\ GapAt(2, i) = <<"-", "+", "-">>
           /\ \A k \in 1..m : \A i \in cols :
                /\ IsPadded(CellAt(k + 2, i),
                            IF tblRows[k][i].t = "null" THEN <<>>
                            ELSE Display(tblRows[k][i]),
                            ColWidth(i))
                /\ i < Len(tblHeaders) => GapAt(k + 2, i) = <<" ", "|", " ">>

\* a table of two columns was rendered whose first row has a NULL in the
\* second column and whose second row is wider than both headers
C14_Witness ==
    /\ op = "format"
    /\ Len(tblHeaders) = 2
    /\ tblRows = << <<IntCell(2), Null>>, <<IntCell(-15), TextCell(<<"a", "\n", "b">>)>> >>
    /\ ColWidth(1) = 3
    /\ Len(tblText) = 4 * 10 + 3

\* the physical lines of a text: one more than its newline characters
PhysicalLines(text) == Cardinality({j \in 1..Len(text) : text[j] = "\n"}) + 1

\* C15: every rendered row occupies exactly one physical line: for headers
\* and n rows the rendered table has exactly n + 2 lines (header, separator,
\* one per row), also when a cell value contains newline characters.
C15_OneLinePerRow ==
    op = "format" => PhysicalLines(tblText) = Len(tblRows) + 2

\* what a statement prints of its own: "OK", the table (with "(empty)" when
\* it has no rows), or the "SQL error" message
IsOwnOutput(p) ==
    \/ p = <<Say("OK")>>
    \/ Len(p) = 1 /\ p[1].ev \in {"table", "SQLerror"}
    \/ Len(p) = 2 /\ p[1].ev = "table" /\ p[2] = Say("empty")

\* C16: timing: while timing is enabled, every executed statement, whether
\* it succeeds or fails, is followed by exactly one "(Time: ... ms)" line,
\* emitted after the statement's own output ("OK", the table, or the "SQL
\* error" message); while timing is disabled no such line is emitted.
C16_TimingLine ==
    op = "exec" =>
        LET p == Printed(trace)
        IN IF _timer
           THEN /\ Len(p) >= 2
                /\ p[Len(p)] = Say("Time")
                /\ IsOwnOutput(SubSeq(p, 1, Len(p) - 1))
           ELSE IsOwnOutput(p)

\* with timing enabled a statement failed, was rolled back and reported,
\* and the timing line followed
C16_Witness ==
    /\ op = "exec"
    /\ _timer
    /\ Kinds(Printed(trace)) = <<"SQLerror", "Time">>
    /\ Has(trace, "rollback")

\* C17: an empty or whitespace-only input line changes nothing in either
\* state: the buffer is unchanged (Idle stays Idle, Continuing stays
\* Continuing with the same lines), no meta-command is dispatched and no
\* statement is executed; nothing is printed and the loop reads again.
C17_BlankLineChangesNothing ==
    [][(op' = "line" /\ lastLine' = <<>>) =>
          /\ trace' = <<>>
          /\ pc' = "read"
          /\ UNCHANGED <<status, rt, openConns, nextConn, files, mem, txn,
                         _buffer, _timer, _readline>>]_vars

\* a blank line was read at the continuation prompt with two lines pending
C17_Witness ==
    /\ op = "line"
    /\ lastLine = <<>>
    /\ trace = <<>>
    /\ Len(_buffer) = 2

\* the members of a list
Members(q) == {q[i] : i \in 1..Len(q)}

\* the candidates the claim C18 gives a line of SQL with the cursor at its
\* end, the database answering: the fragment is the text after the last
\* whitespace, the scan reads the tokens in front of it
SqlCandidates(lb) ==
    LET frag == Fragment(lb)
        context == SubSeq(lb, 1, Len(lb) - Len(frag))
        want == Want(UpperTokens(context))
        relations == {r \in Relations : StartsWith(r, frag)}
    IN IF TableBeforeDot(lb) # <<>>
       THEN Members(ListColumns(Sess, TableBeforeDot(lb), FALSE))
       ELSE IF want = "table" THEN relations
       ELSE IF want = "column"
            THEN {c \in Members(AllColumns(Sess, FALSE)) : StartsWith(c, frag)}
       ELSE {k \in Members(KW) : StartsWith(k, Upper(frag))} \cup relations

\* C18: SQL-context completion: the kind of candidates is decided by the
\* rightmost identifier token before the cursor that is a recognized
\* keyword, compared case-insensitively: FROM, JOIN, UPDATE, INTO or TABLE
\* gives relation names; SELECT, WHERE, ON, GROUP, ORDER, HAVING or SET gives
\* the column names of all relations; when the text immediately before the
\* cursor ends with '<identifier>.' the candidates are that relation's
\* columns whatever the scan found; when there is no keyword and no such
\* suffix the candidates are the fixed keyword list plus the relation names.
\* (Stated for the requests the database answers: those whose answer is the
\* one given when no database error occurs.)
C18_SqlContextCompletion ==
    [][(/\ op' = "complete"
        /\ ~StartsWith(Strip(lastLine'), <<".">>)
        /\ trace' = Completer(Sess, lastLine', trace'[1].n, FALSE).trace) =>
          IsNthOf(Answer(trace'), SqlCandidates(lastLine'), trace'[1].n)]_vars

\* the lines of a text: str.split("\n")
RECURSIVE SplitNL(_, _)
SplitNL(text, cur) ==
    IF text = <<>> THEN <<cur>>
    ELSE IF Head(text) = "\n" THEN <<cur>> \o SplitNL(Tail(text), <<>>)
    ELSE SplitNL(Tail(text), Append(cur, Head(text)))

\* C19: buffer invariant: at every point where the loop waits for a line, no
\* buffered line is empty and no buffered line ends with ';'; hence the
\* session is Continuing (it shows the continuation prompt) exactly when the
\* buffer holds at least one unterminated line, and every statement handed
\* to the Execution Engine ends with ';' and contains no earlier line ending
\* with ';'.
C19_BufferInvariant ==
    /\ pc = "input" =>
         /\ \A i \in 1..Len(_buffer) :
              _buffer[i] # <<>> /\ ~EndsWith(_buffer[i], <<";">>)
         /\ trace = <<Ev("prompt", <<Prompt(Sess)>>, 0)>>
         /\ Prompt(Sess) = <<".", ".", ".", " ">>
              <=> \E i \in 1..Len(_buffer) : ~EndsWith(_buffer[i], <<";">>)
    /\ (op = "line" /\ Has(trace, "execute")) =>
         LET sql == Only(trace, {"execute"})[1].arg[1]
             lines == SplitNL(sql, <<>>)
         IN /\ EndsWith(sql, <<";">>)
            /\ \A i \in 1..(Len(lines) - 1) :
                 lines[i] # <<>> /\ ~EndsWith(lines[i], <<";">>)

\* the loop waits at the continuation prompt with two lines pending, the
\* second of which starts with '.'
C19_Witness ==
    /\ pc = "input"
    /\ Len(_buffer) = 2
    /\ StartsWith(_buffer[2], <<".">>)
    /\ trace = <<Ev("prompt", <<<<".", ".", ".", " ">>>>, 0)>>

\* C20: the active database handle and identifier change only by a
\* successful .open, and only while the buffer is empty: no step taken while
\* the buffer is non-empty, and no statement execution (successful or
\* failing), rebinds the session, so all lines of one statement are entered
\* under, and executed against, the same database.
C20_RebindOnlyByOpen ==
    [][/\ rt' # rt =>
            /\ op' = "line"
            /\ _buffer = <<>>
            /\ Len(Split(lastLine')) > 1
            /\ Split(lastLine')[1] = dotOpen
            /\ Has(trace', "Opened")
            /\ rt'.path = Split(lastLine')[2]
       /\ (_buffer # <<>> \/ Has(trace', "execute")) => rt' = rt
       /\ (_buffer # <<>> /\ _buffer' # <<>>) =>
            /\ SubSeq(_buffer', 1, Len(_buffer)) = _buffer
            /\ rt' = rt]_vars

\* .open a rebound the session from the in-memory database to the file
C20_Witness ==
    /\ op = "line"
    /\ Has(trace, "Opened")
    /\ rt = [conn |-> 2, path |-> fileA]
    /\ _buffer = <<>>

====
